---- MODULE Spec2Model ----
(***************************************************************************)
(* Model of the ixpeobssim excerpts:                                       *)
(*   - srcmodel/light_curve.py   load_light_curve_data                     *)
(*   - config/grb20221009.py     pl_norm (inline conversion factor)        *)
(*   - config/grb221009a.py      pl_norm (int_eflux2pl_norm + ratio)       *)
(*   - bin/xpobsdisplay.py       composite_figure, xpobsdisplay            *)
(* Three specifications share one set of variables: SpecLoad (the loader), *)
(* SpecNorm (the source configurations) and Spec (the display loop).       *)
(* Numbers are exact: integers, and rationals <<num, den>> where the code  *)
(* divides.  Times of the display loop are integer microseconds.           *)
(***************************************************************************)
EXTENDS Integers, Sequences, FiniteSets, TLC

VARIABLES
    \* ---- light-curve loader (light_curve.py) ----
    file,            \* the ASCII table: a sequence of rows, each a sequence of numbers
    time_column,     \* argument time_column
    flux_column,     \* argument flux_column
    time_offset,     \* argument time_offset
    erg,             \* argument erg
    k,               \* spline degree forwarded through **kwargs
    lc_pc,           \* "idle" | "ready" | "loaded"
    lc_model,        \* what load_light_curve_data returned or raised
    lc_manual,       \* the same file loaded with the flux column converted beforehand
    \* ---- source configurations (grb20221009.py, grb221009a.py) ----
    cfg,                 \* the configuration module imported, or "none"
    PL_INDEX,            \* module constant PL_INDEX
    SWIFT_FLUX_EMIN,     \* module constant SWIFT_FLUX_EMIN
    SWIFT_FLUX_EMAX,     \* module constant SWIFT_FLUX_EMAX
    ABSORBED_RATIO,      \* module constant ABSORBED_RATIO, a rational <<num, den>>
    swift_light_curve,   \* the fitted light curve: its value at each time
    nm_pc,               \* "idle" | "import" | "ready" | "failed"
    conversion_factor,   \* the factor captured by the closure pl_norm() returned
    spec_built,          \* the constants spec = power_law(pl_norm(), PL_INDEX) was built with
    calls,               \* the evaluations made so far: who called, t, result
    \* ---- observation display (xpobsdisplay.py) ----
    evtlist,         \* kwargs.get('evtlist'): "none", "" or a file name
    opened,          \* the files and response functions opened or loaded so far
    events,          \* the level-2 file: time_data, energy_data, ra/dec, q/u, row by row
    l2_data,         \* load_level_2_data(...): the rows to display, as row numbers of events
    previous_met,    \* previous_met
    it,              \* the position of the for loop in l2_data (1-based)
    cur,             \* the loop variables met, energy, ra, dec, q, u
    event,           \* the level-1 event bisect_met returned
    hist_spec,       \* hist_spec: counts per energy
    cmap_data,       \* cmap_data: counts per sky pixel
    card,            \* the event data held by the text card
    figs,            \* the open matplotlib figures: records [num, label]
    fig,             \* fig: the number of the iteration's figure, 0 when none
    dp_pc,           \* the position of xpobsdisplay
    dp_error,        \* the exception that ended xpobsdisplay, or "none"
    n_checked,       \* history: timestamp checks passed
    n_binned,        \* history: updates of the binned products
    figs_created,    \* history: figures created
    displayed        \* history: the events shown by display_event

lcVars == <<file, time_column, flux_column, time_offset, erg, k, lc_pc, lc_model, lc_manual>>

nmConsts == <<PL_INDEX, SWIFT_FLUX_EMIN, SWIFT_FLUX_EMAX, ABSORBED_RATIO, swift_light_curve>>

nmVars == <<cfg, nmConsts, nm_pc, conversion_factor, spec_built, calls>>

dpInputs == <<evtlist, events, l2_data>>

dpHistory == <<n_checked, n_binned, figs_created, displayed>>

dpVars == <<dpInputs, opened, previous_met, it, cur, event, hist_spec, cmap_data, card,
            figs, fig, dp_pc, dp_error, dpHistory>>

vars == <<lcVars, nmVars, dpVars>>

(***************************************************************************)
(*                      Bounds and input sets                              *)
(***************************************************************************)
MaxRows == 2
MaxCalls == 3
MaxEnergy == 3
MaxEvents == 3

CellValues == 0..2
RowWidths == 1..2
ColumnIndices == {-3, -1, 0, 1, 2}
TimeOffsets == {0, 100}
SplineDegrees == {1, 3}

\* The scenario table of the specification: times 0..4, fluxes 10,12,11,13,12.
ScenarioFile == << <<0, 10>>, <<1, 12>>, <<2, 11>>, <<3, 13>>, <<4, 12>> >>

\* The photon indices tried: a grid holding the special cases 1 and 2.
PhotonIndices == 0..3
BandEnergies == 1..MaxEnergy
Times == {0, 1}
LightCurveValues == {0, 1, 3}

SeqsUpTo(S, n) == UNION {[1..m -> S] : m \in 0..n}

FileRows == UNION {[1..w -> CellValues] : w \in RowWidths}

Files == SeqsUpTo(FileRows, MaxRows)

(***************************************************************************)
(*                 Light-curve loader (light_curve.py)                     *)
(***************************************************************************)
NoModel == [kind |-> "none", x |-> <<>>, y |-> <<>>]

Raised(exc) == [kind |-> exc, x |-> <<>>, y |-> <<>>]

\* utils.units_.erg_to_keV: a fixed multiplicative constant (6.2415e8).
ERG_TO_KEV == 624150000

erg_to_keV(v) == v * ERG_TO_KEV

\* Python index normalisation of a[c] on an axis of length n.
PyIndex(n, c) == IF c < 0 THEN c + n ELSE c

PyIndexValid(n, c) == 0 <= PyIndex(n, c) /\ PyIndex(n, c) < n

RowLengths(rows) == {Len(rows[j]) : j \in 1..Len(rows)}

\* numpy.loadtxt(file_path, delimiter=delimiter, unpack=True): a ragged table
\* raises ValueError; the result is squeezed, so a single row or a single
\* column gives a 1-d array and a single cell a 0-d array; unpack transposes.
loadtxt(rows) ==
    IF Len(rows) = 0
    THEN [kind |-> "array", ndim |-> 1, data |-> <<>>]
    ELSE IF Cardinality(RowLengths(rows)) > 1
    THEN [kind |-> "ValueError", ndim |-> 0, data |-> <<>>]
    ELSE LET ncols == Len(rows[1])
             nrows == Len(rows)
         IN  IF ncols = 1 /\ nrows = 1
             THEN [kind |-> "array", ndim |-> 0, data |-> <<rows[1][1]>>]
             ELSE IF ncols = 1
             THEN [kind |-> "array", ndim |-> 1,
                   data |-> [j \in 1..nrows |-> rows[j][1]]]
             ELSE IF nrows = 1
             THEN [kind |-> "array", ndim |-> 1, data |-> rows[1]]
             ELSE [kind |-> "array", ndim |-> 2,
                   data |-> [c \in 1..ncols |-> [j \in 1..nrows |-> rows[j][c]]]]

\* data[column]: the column of a 2-d table, a scalar of a 1-d array, or
\* IndexError.  A selected series is a sequence; scalar marks a 0-d value.
getitem(data, column) ==
    IF data.ndim = 0 \/ ~PyIndexValid(Len(data.data), column)
    THEN [kind |-> "IndexError", scalar |-> FALSE, val |-> <<>>]
    ELSE LET item == data.data[PyIndex(Len(data.data), column) + 1]
         IN  IF data.ndim = 1
             THEN [kind |-> "ok", scalar |-> TRUE, val |-> <<item>>]
             ELSE [kind |-> "ok", scalar |-> FALSE, val |-> item]

HasDuplicates(s) == \E i, j \in 1..Len(s) : i < j /\ s[i] = s[j]

\* The position in x of the n-th smallest value (x has no duplicates).
RankIndex(x, n) ==
    CHOOSE j \in 1..Len(x) : Cardinality({i \in 1..Len(x) : x[i] < x[j]}) = n - 1

\* core.spline.xUnivariateSpline(x, y, k=...): the samples sorted by x, each y
\* kept with its x; fails on scalars, on fewer than k + 1 points and on
\* duplicated x values.
xUnivariateSpline(x, y, degree) ==
    IF x.scalar \/ y.scalar \/ Len(x.val) < degree + 1 \/ HasDuplicates(x.val)
    THEN Raised("FittingError")
    ELSE [kind |-> "model",
          x |-> [n \in 1..Len(x.val) |-> x.val[RankIndex(x.val, n)]],
          y |-> [n \in 1..Len(x.val) |-> y.val[RankIndex(x.val, n)]]]

xmin(m) == m.x[1]

xmax(m) == m.x[Len(m.x)]

\* Variants of load_light_curve_data with one plausible slip each.
\* The offset subtracted from the times instead of added.
load_light_curve_data_offset_sign(rows, tcol, fcol, offset, is_erg, degree) ==
    LET data == loadtxt(rows)
        tsel == getitem(data, tcol)
        fsel == getitem(data, fcol)
    IN  IF data.kind # "array" THEN Raised(data.kind)
        ELSE IF tsel.kind # "ok" THEN Raised(tsel.kind)
        ELSE IF fsel.kind # "ok" THEN Raised(fsel.kind)
        ELSE xUnivariateSpline(
                [tsel EXCEPT !.val = [j \in 1..Len(tsel.val) |-> tsel.val[j] - offset]],
                [fsel EXCEPT !.val = [j \in 1..Len(fsel.val) |->
                    IF is_erg THEN erg_to_keV(fsel.val[j]) ELSE fsel.val[j]]],
                degree)

\* The erg flag ignored: the flux is always converted.
load_light_curve_data_always_erg(rows, tcol, fcol, offset, is_erg, degree) ==
    LET data == loadtxt(rows)
        tsel == getitem(data, tcol)
        fsel == getitem(data, fcol)
    IN  IF data.kind # "array" THEN Raised(data.kind)
        ELSE IF tsel.kind # "ok" THEN Raised(tsel.kind)
        ELSE IF fsel.kind # "ok" THEN Raised(fsel.kind)
        ELSE xUnivariateSpline(
                [tsel EXCEPT !.val = [j \in 1..Len(tsel.val) |-> tsel.val[j] + offset]],
                [fsel EXCEPT !.val = [j \in 1..Len(fsel.val) |-> erg_to_keV(fsel.val[j])]],
                degree)

\* A read error swallowed and a flat default light curve returned instead.
load_light_curve_data_fallback(rows, tcol, fcol, offset, is_erg, degree) ==
    LET data == loadtxt(rows)
        tsel == getitem(data, tcol)
        fsel == getitem(data, fcol)
    IN  IF data.kind # "array" \/ tsel.kind # "ok" \/ fsel.kind # "ok"
        THEN [kind |-> "model", x |-> <<0, 1>>, y |-> <<0, 0>>]
        ELSE xUnivariateSpline(
                [tsel EXCEPT !.val = [j \in 1..Len(tsel.val) |-> tsel.val[j] + offset]],
                [fsel EXCEPT !.val = [j \in 1..Len(fsel.val) |->
                    IF is_erg THEN erg_to_keV(fsel.val[j]) ELSE fsel.val[j]]],
                degree)

load_light_curve_data(rows, tcol, fcol, offset, is_erg, degree) ==
    LET data == loadtxt(rows)
    IN  IF data.kind # "array" THEN Raised(data.kind)
        ELSE LET tsel == getitem(data, tcol)
             IN  IF tsel.kind # "ok" THEN Raised(tsel.kind)
                 ELSE LET time == [tsel EXCEPT !.val =
                                      [j \in 1..Len(tsel.val) |-> tsel.val[j] + offset]]
                          fsel == getitem(data, fcol)
                      IN  IF fsel.kind # "ok" THEN Raised(fsel.kind)
                          ELSE LET flux == IF is_erg
                                           THEN [fsel EXCEPT !.val =
                                                   [j \in 1..Len(fsel.val) |->
                                                       erg_to_keV(fsel.val[j])]]
                                           ELSE fsel
                               IN  xUnivariateSpline(time, flux, degree)

\* The table with one column converted from erg to keV by hand.
ConvertColumn(rows, col) ==
    [j \in 1..Len(rows) |->
        [c \in 1..Len(rows[j]) |->
            IF c = PyIndex(Len(rows[j]), col) + 1
            THEN erg_to_keV(rows[j][c]) ELSE rows[j][c]]]

DisplayIdle ==
    /\ evtlist = "none"
    /\ opened = {}
    /\ events = <<>>
    /\ l2_data = <<>>
    /\ previous_met = 0
    /\ it = 0
    /\ cur = [met |-> 0, energy |-> 0, ra |-> 0, dec |-> 0,
              q |-> [shape |-> 0, data |-> <<0>>], u |-> [shape |-> 0, data |-> <<0>>]]
    /\ event = [timestamp |-> 0]
    /\ hist_spec = <<>>
    /\ cmap_data = <<>>
    /\ card = [met |-> 0, energy |-> 0, ra |-> 0, dec |-> 0,
               q |-> [shape |-> 0, data |-> <<0>>], u |-> [shape |-> 0, data |-> <<0>>]]
    /\ figs = {}
    /\ fig = 0
    /\ dp_pc = "idle"
    /\ dp_error = "none"
    /\ n_checked = 0
    /\ n_binned = 0
    /\ figs_created = 0
    /\ displayed = <<>>

LoadIdle ==
    /\ file = <<>>
    /\ time_column = 0
    /\ flux_column = 1
    /\ time_offset = 0
    /\ erg = FALSE
    /\ k = 3
    /\ lc_pc = "idle"
    /\ lc_model = NoModel
    /\ lc_manual = NoModel

NormIdle ==
    /\ cfg = "none"
    /\ PL_INDEX = 0
    /\ SWIFT_FLUX_EMIN = 0
    /\ SWIFT_FLUX_EMAX = 0
    /\ ABSORBED_RATIO = <<1, 1>>
    /\ swift_light_curve = <<>>
    /\ nm_pc = "idle"
    /\ conversion_factor = [kind |-> "none", q |-> <<0, 1>>, ln |-> 0]
    /\ spec_built = [index |-> 0, emin |-> 0, emax |-> 0, ratio |-> <<0, 1>>, lc |-> <<>>]
    /\ calls = <<>>

InitLoad ==
    /\ NormIdle
    /\ DisplayIdle
    /\ \/ /\ file \in Files
          /\ erg \in BOOLEAN
          /\ k \in SplineDegrees
       \/ /\ file = ScenarioFile
          /\ erg = FALSE
          /\ k = 3
    /\ time_column \in ColumnIndices
    /\ flux_column \in ColumnIndices
    /\ time_offset \in TimeOffsets
    /\ lc_pc = "ready"
    /\ lc_model = NoModel
    /\ lc_manual = NoModel

\* swift_light_curve = load_light_curve_data(path, ...)
Load ==
    /\ lc_pc = "ready"
    /\ lc_model' = load_light_curve_data(file, time_column, flux_column,
                                         time_offset, erg, k)
    /\ lc_pc' = "loaded"
    /\ UNCHANGED <<file, time_column, flux_column, time_offset, erg, k, lc_manual, nmVars, dpVars>>

\* The round trip of the specification: the erg file converted by hand and
\* loaded as a keV file.
LoadConverted ==
    /\ lc_pc = "loaded"
    /\ erg
    /\ lc_manual = NoModel
    /\ lc_manual' = load_light_curve_data(ConvertColumn(file, flux_column),
                                          time_column, flux_column,
                                          time_offset, FALSE, k)
    /\ lc_manual'.kind # "none"
    /\ UNCHANGED <<file, time_column, flux_column, time_offset, erg, k, lc_pc, lc_model, nmVars, dpVars>>

NextLoad == Load \/ LoadConverted

SpecLoad == InitLoad /\ [][NextLoad]_vars

(***************************************************************************)
(*   Source configurations (config/grb20221009.py, config/grb221009a.py)   *)
(***************************************************************************)
RECURSIVE Gcd(_, _)
Gcd(a, b) == IF b = 0 THEN a ELSE Gcd(b, a % b)

Abs(a) == IF a < 0 THEN -a ELSE a

\* Exact rationals <<num, den>>, den > 0, in lowest terms.
Rat(n, d) ==
    LET g == Gcd(Abs(n), Abs(d))
        sgn == IF d < 0 THEN -1 ELSE 1
    IN  <<sgn * (n \div g), sgn * (d \div g)>>

RatSub(a, b) == Rat(a[1] * b[2] - b[1] * a[2], a[2] * b[2])

RatMul(a, b) == Rat(a[1] * b[1], a[2] * b[2])

RatDiv(a, b) == Rat(a[1] * b[2], a[2] * b[1])

RECURSIVE IntPow(_, _)
IntPow(b, e) == IF e = 0 THEN 1 ELSE b * IntPow(b, e - 1)

\* b ** e for a positive integer b and an integer exponent e.
Pow(b, e) == IF e >= 0 THEN Rat(IntPow(b, e), 1) ELSE Rat(1, IntPow(b, -e))

\* A float result (q * log(emax / emin) ** ln, q rational) or a raised exception.
Num(q, ln) == [kind |-> "num", q |-> q, ln |-> ln]

Exc(name) == [kind |-> name, q |-> <<0, 1>>, ln |-> 0]

NoValue == Exc("none")

\* grb20221009.pl_norm, lines 63-64: the conversion factor computed when
\* pl_norm() is called; Python raises ZeroDivisionError on a zero divisor.
grb20221009_conversion_factor(index, emin, emax) ==
    LET idx == 2 - index
        den == RatSub(Pow(emax, idx), Pow(emin, idx))
    IN  IF den[1] = 0 THEN Exc("ZeroDivisionError")
        ELSE Num(RatDiv(<<idx, 1>>, den), 0)

\* grb20221009.pl_norm._pl_norm(t), lines 66-67.
grb20221009_pl_norm(factor, lc, t) ==
    Num(RatMul(factor.q, <<lc[t], 1>>), factor.ln)

\* srcmodel.spectrum.int_eflux2pl_norm(integral, emin, emax, index, erg=False):
\* the normalisation of the power law whose energy flux over [emin, emax] is
\* integral; logarithmic closed form at index 2; an empty or inverted band is
\* refused.
int_eflux2pl_norm(integral, emin, emax, index) ==
    IF emin >= emax THEN Exc("InvalidSpectralIndexError")
    ELSE IF index = 2 THEN Num(<<integral, 1>>, -1)
    ELSE Num(RatDiv(RatMul(<<integral, 1>>, <<2 - index, 1>>),
                    RatSub(Pow(emax, 2 - index), Pow(emin, 2 - index))), 0)

\* grb221009a.pl_norm._pl_norm(t), lines 68-73: the constants are read from
\* the module when the closure is called.
grb221009a_pl_norm(ratio, lc, emin, emax, index, t) ==
    LET norm == int_eflux2pl_norm(lc[t], emin, emax, index)
    IN  IF norm.kind # "num" THEN norm
        ELSE Num(RatMul(ratio, norm.q), norm.ln)

Snapshot == [index |-> PL_INDEX, emin |-> SWIFT_FLUX_EMIN, emax |-> SWIFT_FLUX_EMAX,
             ratio |-> ABSORBED_RATIO, lc |-> swift_light_curve]

NoSnapshot == [index |-> 0, emin |-> 0, emax |-> 0, ratio |-> <<0, 1>>, lc |-> <<>>]

InitNorm ==
    /\ LoadIdle
    /\ DisplayIdle
    /\ cfg \in {"grb20221009", "grb221009a"}
    /\ PL_INDEX \in PhotonIndices
    /\ SWIFT_FLUX_EMIN \in BandEnergies
    /\ SWIFT_FLUX_EMAX \in BandEnergies
    /\ ABSORBED_RATIO = IF cfg = "grb221009a" THEN <<127, 50>> ELSE <<1, 1>>
    /\ swift_light_curve \in [Times -> LightCurveValues]
    /\ nm_pc = "import"
    /\ conversion_factor = NoValue
    /\ spec_built = NoSnapshot
    /\ calls = <<>>

\* Module import up to spec = power_law(pl_norm(), PL_INDEX): grb20221009
\* computes the conversion factor here, grb221009a only creates the closure.
ImportConfig ==
    /\ nm_pc = "import"
    /\ conversion_factor' =
          IF cfg = "grb20221009"
          THEN grb20221009_conversion_factor(PL_INDEX, SWIFT_FLUX_EMIN, SWIFT_FLUX_EMAX)
          ELSE NoValue
    /\ nm_pc' = IF conversion_factor'.kind \in {"num", "none"} THEN "ready" ELSE "failed"
    /\ spec_built' = IF nm_pc' = "ready" THEN Snapshot ELSE NoSnapshot
    /\ UNCHANGED <<cfg, nmConsts, calls, lcVars, dpVars>>

\* The value the closure held by spec returns at time t.
pl_norm_value(t) ==
    IF cfg = "grb20221009"
    THEN grb20221009_pl_norm(conversion_factor, swift_light_curve, t)
    ELSE grb221009a_pl_norm(ABSORBED_RATIO, swift_light_curve, SWIFT_FLUX_EMIN,
                            SWIFT_FLUX_EMAX, PL_INDEX, t)

\* The value pl_norm()(t) returns: a closure built afresh, as display() does.
pl_norm_fresh_value(t) ==
    IF cfg = "grb20221009"
    THEN LET factor == grb20221009_conversion_factor(PL_INDEX, SWIFT_FLUX_EMIN,
                                                     SWIFT_FLUX_EMAX)
         IN  IF factor.kind # "num" THEN factor
             ELSE grb20221009_pl_norm(factor, swift_light_curve, t)
    ELSE grb221009a_pl_norm(ABSORBED_RATIO, swift_light_curve, SWIFT_FLUX_EMIN,
                            SWIFT_FLUX_EMAX, PL_INDEX, t)

\* A slip of the closure: the light curve rescaled in place at every call.
EvaluateSpecInPlace ==
    /\ nm_pc = "ready"
    /\ Len(calls) < MaxCalls
    /\ \E t \in Times :
          /\ calls' = Append(calls, [by |-> "spec", t |-> t, value |-> pl_norm_value(t)])
          /\ swift_light_curve' = [u \in Times |-> 2 * swift_light_curve[u] + 1]
    /\ UNCHANGED <<cfg, PL_INDEX, SWIFT_FLUX_EMIN, SWIFT_FLUX_EMAX, ABSORBED_RATIO,
                   nm_pc, conversion_factor, spec_built, lcVars, dpVars>>

\* The photon sampler evaluates the spectrum's normalisation at time t.
EvaluateSpec ==
    /\ nm_pc = "ready"
    /\ Len(calls) < MaxCalls
    /\ \E t \in Times :
          calls' = Append(calls, [by |-> "spec", t |-> t, value |-> pl_norm_value(t)])
    /\ UNCHANGED <<cfg, nmConsts, nm_pc, conversion_factor, spec_built, lcVars, dpVars>>

\* plt.figure(label): the open figure of that label if there is one, else a
\* new figure numbered after the highest open number.
plt_figure(open, label) ==
    IF \E f \in open : f.label = label
    THEN [created |-> FALSE, fig |-> CHOOSE f \in open : f.label = label]
    ELSE [created |-> TRUE,
          fig |-> [num |-> IF open = {} THEN 1
                           ELSE 1 + (CHOOSE n \in {f.num : f \in open} :
                                        \A f \in open : f.num <= n),
                   label |-> label]]

\* f'light curve {__model__}'
light_curve_label(model) == "light curve " \o model

\* f'PL norm {__model__}'
pl_norm_label(model) == "PL norm " \o model

\* display(): the light-curve figure, then the PL-norm figure with
\* plt.plot(t_, pl_norm()(t_), 'o'); neither figure is closed.
DisplayNorm ==
    /\ nm_pc = "ready"
    /\ Len(calls) < MaxCalls
    /\ LET first == plt_figure(figs, light_curve_label(cfg))
           open1 == figs \cup {first.fig}
           second == plt_figure(open1, pl_norm_label(cfg))
       IN /\ figs' = open1 \cup {second.fig}
          /\ figs_created' = figs_created + (IF first.created THEN 1 ELSE 0)
                                           + (IF second.created THEN 1 ELSE 0)
    /\ \E t \in Times :
          calls' = Append(calls, [by |-> "display", t |-> t,
                                  value |-> pl_norm_fresh_value(t)])
    /\ UNCHANGED <<cfg, nmConsts, nm_pc, conversion_factor, spec_built, lcVars,
                   dpInputs, opened, previous_met, it, cur, event, hist_spec,
                   cmap_data, card, fig, dp_pc, dp_error, n_checked, n_binned,
                   displayed>>

\* plt.gca(): the axes of the current figure; with no figure open, a new
\* unlabelled figure is created first.
plt_gca(open) == IF open = {} THEN plt_figure(open, "") ELSE [created |-> FALSE]

\* grb221009a.add_grb_timescale_top_axis(): a secondary axis on plt.gca().
add_grb_timescale_top_axis ==
    /\ nm_pc = "ready"
    /\ cfg = "grb221009a"
    /\ LET got == plt_gca(figs)
       IN /\ got.created
          /\ figs' = figs \cup {got.fig}
          /\ figs_created' = figs_created + 1
    /\ UNCHANGED <<nmVars, lcVars, dpInputs, opened, previous_met, it, cur, event,
                   hist_spec, cmap_data, card, fig, dp_pc, dp_error, n_checked,
                   n_binned, displayed>>

NextNorm == ImportConfig \/ EvaluateSpec \/ DisplayNorm \/ add_grb_timescale_top_axis

SpecNorm == InitNorm /\ [][NextNorm]_vars

(***************************************************************************)
(*               Observation display (bin/xpobsdisplay.py)                 *)
(***************************************************************************)
\* A numpy value: a scalar (shape 0) or a one-bin array (shape 1).
Scalar(v) == [shape |-> 0, data |-> <<v>>]

Array1(v) == [shape |-> 1, data |-> <<v>>]

\* The rows a level-2 file may hold; times are microseconds.
EventCatalog ==
    { [time |-> 10, energy |-> 2, ra |-> 0, dec |-> 0, q |-> 1, u |-> -1],
      [time |-> 10, energy |-> 5, ra |-> 1, dec |-> 0, q |-> -1, u |-> 1],
      [time |-> 20, energy |-> 5, ra |-> 0, dec |-> 1, q |-> 1, u |-> 1],
      [time |-> 30, energy |-> 9, ra |-> 1, dec |-> 1, q |-> -1, u |-> -1] }

\* Level-2 files are time-ordered.
EventLists ==
    {s \in SeqsUpTo(EventCatalog, MaxEvents) :
        \A i, j \in 1..Len(s) : i < j => s[i].time <= s[j].time}

SeqOfSet(S) ==
    [n \in 1..Cardinality(S) |-> CHOOSE v \in S : Cardinality({w \in S : w < v}) = n - 1]

\* What load_level_2_data may select of n rows: any rows, in file order.
Selections(n) == {SeqOfSet(S) : S \in SUBSET (1..n)}

\* event.timestamp - met for the event bisect_met finds, in microseconds.
TimestampErrors == {-3, -2, 0, 2, 3}

HistEnergies == {e.energy : e \in EventCatalog}

Pixels == {<<e.ra, e.dec>> : e \in EventCatalog}

NoCard == [met |-> 0, energy |-> 0, ra |-> 0, dec |-> 0, q |-> Scalar(0), u |-> Scalar(0)]

FIGURE_LABEL == "Observation display (None)"

\* assert abs(event.timestamp - met) <= 2.e-6
TIMESTAMP_TOLERANCE == 2

\* The check left out (no assert).
timestamp_unchecked(ev, met) == TRUE

timestamp_ok(ev, met) == Abs(ev.timestamp - met) <= TIMESTAMP_TOLERANCE

RECURSIVE SumSeq(_)
SumSeq(s) == IF Len(s) = 0 THEN 0 ELSE s[1] + SumSeq(Tail(s))

\* analysis.polarization_table(numpy.linspace(2., 8., 2)): one energy bin,
\* [2, 8], over the whole file; QN and UN are one-bin arrays.
polarization_table(evts) ==
    LET InBand(e) == 2 <= e.energy /\ e.energy <= 8
    IN  [QN |-> Array1(SumSeq([j \in 1..Len(evts) |->
                                 IF InBand(evts[j]) THEN evts[j].q ELSE 0])),
         UN |-> Array1(SumSeq([j \in 1..Len(evts) |->
                                 IF InBand(evts[j]) THEN evts[j].u ELSE 0]))]

\* mask = numpy.logical_and(time_data >= previous_met, time_data < met)
mask(evts, lo, hi) == {j \in 1..Len(evts) : evts[j].time >= lo /\ evts[j].time < hi}

\* The figure left open.
plt_close_skipped(open, num) == open

\* plt.close(fig)
plt_close(open, num) == {f \in open : f.num # num}

InitDisplay ==
    /\ LoadIdle
    /\ NormIdle
    /\ evtlist \in {"none", "", "evt.fits"}
    /\ events \in IF evtlist = "evt.fits" THEN EventLists ELSE {<<>>}
    /\ l2_data \in Selections(Len(events))
    /\ opened = {}
    /\ previous_met = 0
    /\ it = 0
    /\ cur = NoCard
    /\ event = [timestamp |-> 0]
    /\ hist_spec = <<>>
    /\ cmap_data = <<>>
    /\ card = NoCard
    /\ figs = {}
    /\ fig = 0
    /\ dp_pc = "start"
    /\ dp_error = "none"
    /\ n_checked = 0
    /\ n_binned = 0
    /\ figs_created = 0
    /\ displayed = <<>>

\* Only a missing key refused: an empty evtlist let through.
evtlist_missing_none_only(value) == value = "none"

\* not kwargs.get('evtlist'): the key is missing (None) or its value is empty.
evtlist_missing(value) == value \in {"none", ""}

\* Lines 106-146: the event list is required, then the files are opened, the
\* binned products set up and previous_met read from time_data[0].
Setup ==
    /\ dp_pc = "start"
    /\ IF evtlist_missing(evtlist)
       THEN /\ dp_error' = "RuntimeError"
            /\ dp_pc' = "error"
            /\ UNCHANGED <<opened, previous_met, it, hist_spec, cmap_data, card>>
       ELSE /\ opened' = {"l1_file", "l2_file", "arf", "modf"}
            /\ hist_spec' = [e \in HistEnergies |-> 0]
            /\ cmap_data' = [p \in Pixels |-> 0]
            /\ card' = NoCard
            /\ IF Len(events) = 0
               THEN /\ dp_error' = "IndexError"
                    /\ dp_pc' = "error"
                    /\ UNCHANGED <<previous_met, it>>
               ELSE /\ previous_met' = events[1].time
                    /\ it' = 1
                    /\ dp_pc' = "loop"
                    /\ UNCHANGED dp_error
    /\ UNCHANGED <<dpInputs, cur, event, figs, fig, dpHistory, lcVars, nmVars>>

\* Lines 149-152: the next row of l2_data, its level-1 event, the assertion.
Bisect ==
    /\ dp_pc = "loop"
    /\ it <= Len(l2_data)
    /\ \E err \in TimestampErrors :
          LET row == events[l2_data[it]]
          IN  /\ cur' = [met |-> row.time, energy |-> row.energy, ra |-> row.ra,
                         dec |-> row.dec, q |-> Scalar(row.q), u |-> Scalar(row.u)]
              /\ event' = [timestamp |-> row.time + err]
              /\ IF timestamp_ok(event', row.time)
                 THEN /\ dp_pc' = "checked"
                      /\ n_checked' = n_checked + 1
                      /\ UNCHANGED dp_error
                 ELSE /\ dp_pc' = "error"
                      /\ dp_error' = "AssertionError"
                      /\ UNCHANGED n_checked
    /\ UNCHANGED <<dpInputs, opened, previous_met, it, hist_spec, cmap_data, card,
                   figs, fig, n_binned, figs_created, displayed, lcVars, nmVars>>

\* The for loop is exhausted.
LoopExit ==
    /\ dp_pc = "loop"
    /\ it > Len(l2_data)
    /\ dp_pc' = "done"
    /\ UNCHANGED <<dpInputs, opened, previous_met, it, cur, event, hist_spec, cmap_data,
                   card, figs, fig, dp_error, dpHistory, lcVars, nmVars>>

\* The window start moved on to the current MET after the update.
UpdateBinnedSliding ==
    /\ dp_pc = "checked"
    /\ LET sel == mask(events, previous_met, cur.met)
       IN  /\ hist_spec' = [e \in HistEnergies |->
                 hist_spec[e] + Cardinality({j \in sel : events[j].energy = e})]
           /\ cmap_data' = [p \in Pixels |->
                 cmap_data[p] + Cardinality({j \in sel : <<events[j].ra, events[j].dec>> = p})]
    /\ previous_met' = cur.met
    /\ n_binned' = n_binned + 1
    /\ dp_pc' = "binned"
    /\ UNCHANGED <<dpInputs, opened, it, cur, event, card, figs, fig, dp_error,
                   n_checked, figs_created, displayed, lcVars, nmVars>>

\* Lines 153-161: the rows of [previous_met, met) fill the spectrum and the
\* count map; previous_met is not assigned.
UpdateBinned ==
    /\ dp_pc = "checked"
    /\ LET sel == mask(events, previous_met, cur.met)
       IN  /\ hist_spec' = [e \in HistEnergies |->
                 hist_spec[e] + Cardinality({j \in sel : events[j].energy = e})]
           /\ cmap_data' = [p \in Pixels |->
                 cmap_data[p] + Cardinality({j \in sel : <<events[j].ra, events[j].dec>> = p})]
    /\ n_binned' = n_binned + 1
    /\ dp_pc' = "binned"
    /\ UNCHANGED <<dpInputs, opened, previous_met, it, cur, event, card, figs, fig,
                   dp_error, n_checked, figs_created, displayed, lcVars, nmVars>>

\* Line 170: composite_figure(wcs_), that is plt.figure(...) and its axes.
composite_figure ==
    /\ dp_pc = "binned"
    /\ LET got == plt_figure(figs, FIGURE_LABEL)
       IN  /\ figs' = figs \cup {got.fig}
           /\ fig' = got.fig.num
           /\ figs_created' = IF got.created THEN figs_created + 1 ELSE figs_created
    /\ dp_pc' = "figure"
    /\ UNCHANGED <<dpInputs, opened, previous_met, it, cur, event, hist_spec, cmap_data,
                   card, dp_error, n_checked, n_binned, displayed, lcVars, nmVars>>

\* Lines 171-195: sky map, polarization plot (q, u rebound to the table's QN,
\* UN at line 180), spectrum, and the text card.
Draw ==
    /\ dp_pc = "figure"
    /\ LET table == polarization_table(events)
       IN  /\ cur' = [cur EXCEPT !.q = table.QN, !.u = table.UN]
           /\ card' = [met |-> cur.met, energy |-> cur.energy, ra |-> cur.ra,
                       dec |-> cur.dec, q |-> table.QN, u |-> table.UN]
    /\ dp_pc' = "drawn"
    /\ UNCHANGED <<dpInputs, opened, previous_met, it, event, hist_spec, cmap_data,
                   figs, fig, dp_error, dpHistory, lcVars, nmVars>>

\* Line 199: display_event(event, ...), blocking.
DisplayEvent ==
    /\ dp_pc = "drawn"
    /\ displayed' = Append(displayed, [met |-> cur.met, timestamp |-> event.timestamp])
    /\ dp_pc' = "displayed"
    /\ UNCHANGED <<dpInputs, opened, previous_met, it, cur, event, hist_spec, cmap_data,
                   card, figs, fig, dp_error, n_checked, n_binned, figs_created,
                   lcVars, nmVars>>

\* Line 201: plt.close(fig); the loop moves to the next row.
CloseFigure ==
    /\ dp_pc = "displayed"
    /\ figs' = plt_close(figs, fig)
    /\ it' = it + 1
    /\ dp_pc' = "loop"
    /\ UNCHANGED <<dpInputs, opened, previous_met, cur, event, hist_spec, cmap_data,
                   card, fig, dp_error, dpHistory, lcVars, nmVars>>

Next ==
    \/ Setup
    \/ Bisect
    \/ LoopExit
    \/ UpdateBinned
    \/ composite_figure
    \/ Draw
    \/ DisplayEvent
    \/ CloseFigure

Spec == InitDisplay /\ [][Next]_vars

(***************************************************************************)
(*                     Claims about the loader                             *)
(***************************************************************************)
Loaded == lc_pc = "loaded"

\* The table is a proper 2-d table: at least two rows, all of one width >= 2.
IsTable2d ==
    /\ Len(file) >= 2
    /\ Cardinality(RowLengths(file)) = 1
    /\ Len(file[1]) >= 2

IsRagged == Cardinality(RowLengths(file)) > 1

ColumnOf(c) == PyIndex(Len(file[1]), c) + 1

\* The samples the table holds: each row's time, shifted, with that row's flux.
ExpectedSamples ==
    {<<file[j][ColumnOf(time_column)] + time_offset,
       IF erg THEN file[j][ColumnOf(flux_column)] * ERG_TO_KEV
       ELSE file[j][ColumnOf(flux_column)]>> : j \in 1..Len(file)}

ModelSamples(m) == {<<m.x[n], m.y[n]>> : n \in 1..Len(m.x)}

SetMin(S) == CHOOSE v \in S : \A w \in S : v <= w

SetMax(S) == CHOOSE v \in S : \A w \in S : v >= w

RawTimes == {file[j][ColumnOf(time_column)] : j \in 1..Len(file)}

\* C3: a loaded model holds exactly the rows' (time + time_offset, flux) pairs,
\* the flux never shifted, and its domain is [min(time) + time_offset,
\* max(time) + time_offset]; times 0..4 with offset 100 give 100 and 104.
C3_OffsetOnTimeOnly ==
    (Loaded /\ lc_model.kind = "model") =>
        /\ ModelSamples(lc_model) = ExpectedSamples
        /\ Len(lc_model.x) = Len(file)
        /\ \A n \in 1..(Len(lc_model.x) - 1) : lc_model.x[n] < lc_model.x[n + 1]
        /\ xmin(lc_model) = SetMin(RawTimes) + time_offset
        /\ xmax(lc_model) = SetMax(RawTimes) + time_offset
        /\ (file = ScenarioFile /\ time_column = 0 /\ time_offset = 100) =>
               (xmin(lc_model) = 100 /\ xmax(lc_model) = 104)

C3_Witness ==
    /\ Loaded
    /\ lc_model.kind = "model"
    /\ file = ScenarioFile
    /\ time_column = 0
    /\ flux_column = 1
    /\ time_offset = 100
    /\ xmin(lc_model) = 100
    /\ xmax(lc_model) = 104
    /\ lc_model.y = <<10, 12, 11, 13, 12>>

\* The two column arguments select the same column of the table.
SameColumn ==
    /\ Len(file) > 0
    /\ PyIndex(Len(file[1]), time_column) = PyIndex(Len(file[1]), flux_column)

\* C4: the flux of a loaded model is converted exactly when erg is set and
\* the times never are; loading the erg file with erg=True gives what loading
\* the hand-converted file with erg=False gives (time and flux being two
\* different columns).
C4_ErgConversionOnFluxOnly ==
    /\ (Loaded /\ lc_model.kind = "model") =>
           \A n \in 1..Len(lc_model.x) : \E j \in 1..Len(file) :
               /\ lc_model.x[n] = file[j][ColumnOf(time_column)] + time_offset
               /\ lc_model.y[n] = IF erg
                                  THEN file[j][ColumnOf(flux_column)] * ERG_TO_KEV
                                  ELSE file[j][ColumnOf(flux_column)]
    /\ (lc_manual.kind # "none" /\ ~SameColumn) => lc_manual = lc_model

C4_Witness ==
    /\ erg
    /\ lc_model.kind = "model"
    /\ lc_manual = lc_model
    /\ ~SameColumn
    /\ \E n \in 1..Len(lc_model.y) : lc_model.y[n] = 2 * ERG_TO_KEV
    /\ \E n \in 1..Len(lc_model.x) : lc_model.x[n] = 102

\* A column argument outside what indexing the unpacked table accepts.
ColumnOutOfRange(c) == ~PyIndexValid(Len(file[1]), c)

Malformed ==
    \/ IsRagged
    \/ IsTable2d /\ (ColumnOutOfRange(time_column) \/ ColumnOutOfRange(flux_column))

\* C5 as stated: a malformed file makes the loader fail with MalformedDataError.
C5_AsStated ==
    (Loaded /\ Malformed) => lc_model.kind = "MalformedDataError"

\* C5 amended: rows of inconsistent width fail with ValueError, a column
\* outside [-ncols, ncols - 1] of a 2-d table fails with IndexError, and in
\* both cases no model (fitted or default) is returned.
C5_MalformedAborts ==
    Loaded =>
        /\ IsRagged => lc_model.kind = "ValueError"
        /\ (IsTable2d /\ (ColumnOutOfRange(time_column) \/ ColumnOutOfRange(flux_column)))
               => lc_model.kind = "IndexError"
        /\ Malformed => (lc_model.x = <<>> /\ lc_model.y = <<>>)

C5_Witness ==
    /\ Loaded
    /\ IsTable2d
    /\ ColumnOutOfRange(flux_column)
    /\ ~ColumnOutOfRange(time_column)
    /\ lc_model.kind = "IndexError"
    /\ lc_model.x = <<>>

(***************************************************************************)
(*               Claims about the source configurations                    *)
(***************************************************************************)
Imported == nm_pc \in {"ready", "failed"}

ValidBand == SWIFT_FLUX_EMIN < SWIFT_FLUX_EMAX

\* The energy flux of norm * E^(-index) over [emin, emax]: the integral of
\* norm * E^(1 - index), a logarithm at index 2.
EnergyFlux(norm, index, emin, emax) ==
    IF index = 2 THEN Num(norm.q, norm.ln + 1)
    ELSE Num(RatMul(norm.q, RatDiv(RatSub(Pow(emax, 2 - index), Pow(emin, 2 - index)),
                                   <<2 - index, 1>>)), norm.ln)

\* C1 as stated: for every photon index of the grid (1 and 2 included) the
\* configuration builds its spectrum, and at every time the spectrum's energy
\* flux over [SWIFT_FLUX_EMIN, SWIFT_FLUX_EMAX] equals swift_light_curve(t).
C1_AsStated ==
    (Imported /\ ValidBand) =>
        /\ nm_pc = "ready"
        /\ \A i \in 1..Len(calls) :
              /\ calls[i].value.kind = "num"
              /\ EnergyFlux(calls[i].value, PL_INDEX, SWIFT_FLUX_EMIN, SWIFT_FLUX_EMAX)
                   = Num(<<swift_light_curve[calls[i].t], 1>>, 0)

\* C2 as stated: with photon index 2 building and evaluating the
\* normalisation divides by zero nowhere and returns the logarithmic closed
\* form, flux / log(Emax / Emin) (times the absorption ratio).
C2_AsStated ==
    (Imported /\ ValidBand /\ PL_INDEX = 2) =>
        /\ nm_pc = "ready"
        /\ conversion_factor.kind # "ZeroDivisionError"
        /\ \A i \in 1..Len(calls) :
              calls[i].value =
                  Num(RatMul(ABSORBED_RATIO, <<swift_light_curve[calls[i].t], 1>>), -1)

\* C6 as stated: with an empty or inverted band the conversion raises
\* InvalidSpectralIndexError, when built or when evaluated, and never returns
\* a normalisation.
C6_AsStated ==
    (Imported /\ ~ValidBand) =>
        /\ nm_pc = "failed" => conversion_factor.kind = "InvalidSpectralIndexError"
        /\ \A i \in 1..Len(calls) : calls[i].value.kind = "InvalidSpectralIndexError"

\* C10: the normalisation is a pure function of time: any two evaluations at
\* the same t, through the spectrum's closure or a fresh pl_norm(), return
\* the same value, and the light curve and the spectral constants are still
\* those the spectrum was built with.
C10_PureFunctionOfTime ==
    nm_pc = "ready" =>
        /\ spec_built = Snapshot
        /\ \A i, j \in 1..Len(calls) :
              calls[i].t = calls[j].t => calls[i].value = calls[j].value

C10_Witness ==
    /\ nm_pc = "ready"
    /\ Len(calls) = 3
    /\ calls[1].t = calls[3].t
    /\ calls[1].t # calls[2].t
    /\ calls[1].by = "spec"
    /\ calls[3].by = "display"
    /\ calls[1].value.kind = "num"
    /\ calls[1].value.q[1] # 0
    /\ calls[1].value # calls[2].value
    /\ calls[1].value = calls[3].value

(***************************************************************************)
(*                  Claims about the display loop                          *)
(***************************************************************************)
FigureOpenAt == {"figure", "drawn", "displayed"}

\* C7: at most one composite figure is open at any time; each iteration
\* creates exactly one and closes it before the next starts; none is left
\* open when the loop has ended.
C7_OneFigureAtATime ==
    /\ Cardinality(figs) <= 1
    /\ dp_pc \in FigureOpenAt =>
          /\ figs = {[num |-> fig, label |-> FIGURE_LABEL]}
          /\ figs_created = it
    /\ dp_pc \in {"loop", "checked", "binned", "done", "error"} => figs = {}
    /\ dp_pc \in {"loop", "done"} => figs_created = it - 1
    /\ dp_pc = "done" => figs_created = Len(l2_data)

C7_Witness ==
    /\ dp_pc = "done"
    /\ figs_created = 3
    /\ Len(displayed) = 3
    /\ figs = {}

\* C8: the level-1 event of every iteration is within 2 microseconds of the
\* level-2 MET before the binned products are updated, a figure is created
\* or the event is displayed; a failed check stops the loop with none of
\* these done for that event.
C8_TimestampCheckedFirst ==
    /\ dp_pc \in {"checked", "binned", "figure", "drawn", "displayed"} =>
          /\ cur.met = events[l2_data[it]].time
          /\ Abs(event.timestamp - cur.met) <= 2
          /\ n_checked = it
    /\ n_binned <= n_checked
    /\ figs_created <= n_checked
    /\ Len(displayed) <= n_checked
    /\ \A n \in 1..Len(displayed) :
          Abs(displayed[n].timestamp - displayed[n].met) <= 2
    /\ dp_error = "AssertionError" =>
          /\ Abs(event.timestamp - cur.met) > 2
          /\ n_checked = it - 1
          /\ n_binned = it - 1
          /\ figs_created = it - 1
          /\ Len(displayed) = it - 1
          /\ figs = {}

C8_Witness ==
    /\ dp_error = "AssertionError"
    /\ it = 2
    /\ event.timestamp - cur.met = 3
    /\ n_binned = 1
    /\ Len(displayed) = 1
    /\ displayed[1].timestamp - displayed[1].met = -2

LoopStep == dp_pc \in {"loop", "checked", "binned", "figure", "drawn", "displayed"}

\* C9 as stated: of the state set up before the loop only cmap_data is
\* modified by the iterations.
C9_AsStated ==
    [][LoopStep => UNCHANGED <<hist_spec, card, previous_met, dpInputs, opened>>]_vars

\* C9 amended: the count map, the spectrum histogram and the text card are
\* the only state carried from one iteration to the next and modified: the
\* two binned products only by the binned-products update, the card only by
\* the drawing step; previous_met, the level-2 arrays and the opened files
\* stay constant, and the loop variables, the level-1 event and the figure
\* are rebuilt inside each iteration.
C9_CarriedState ==
    [][LoopStep =>
        /\ UNCHANGED <<previous_met, dpInputs, opened>>
        /\ (hist_spec' # hist_spec \/ cmap_data' # cmap_data) => dp_pc = "checked"
        /\ card' # card => dp_pc = "figure"
        /\ (dp_pc = "loop" /\ dp_pc' # "done") =>
              /\ cur'.met = events[l2_data[it]].time
              /\ cur'.q = Scalar(events[l2_data[it]].q)
              /\ event'.timestamp - cur'.met \in TimestampErrors
        /\ dp_pc = "binned" => (figs = {} /\ figs' = {[num |-> fig', label |-> FIGURE_LABEL]})
      ]_vars

C9_Witness ==
    /\ dp_pc = "checked"
    /\ it = 2
    /\ \E e \in HistEnergies : hist_spec[e] > 0
    /\ \E p \in Pixels : cmap_data[p] > 0
    /\ card.met = events[l2_data[1]].time
    /\ card.met # cur.met

(***************************************************************************)
(*           Claims about the display loop: totals, card, start            *)
(***************************************************************************)
RECURSIVE TotalOver(_, _)
TotalOver(f, S) ==
    IF S = {} THEN 0
    ELSE LET v == CHOOSE w \in S : TRUE IN f[v] + TotalOver(f, S \ {v})

\* The iteration for cur.met has updated the binned products.
BinnedForCurrent == dp_pc \in {"binned", "figure", "drawn", "displayed"}

\* The level-2 rows with time in [time_data[0], cur.met).
RowsBeforeCurrent == mask(events, events[1].time, cur.met)

\* C12 as stated: every level-2 event enters the count map and the spectrum
\* at most once, so after the iteration for MET m neither total exceeds the
\* number of events with time in [time_data[0], m).
C12_AsStated ==
    BinnedForCurrent =>
        /\ TotalOver(hist_spec, HistEnergies) <= Cardinality(RowsBeforeCurrent)
        /\ TotalOver(cmap_data, Pixels) <= Cardinality(RowsBeforeCurrent)

\* The level-2 row the iteration displays.
CurrentRow == events[l2_data[it]]

\* C13 as stated: the text card of every iteration holds the MET, energy,
\* right ascension, declination and Stokes q and u of the level-2 event of
\* that iteration, as read from the event list.
C13_AsStated ==
    dp_pc \in {"drawn", "displayed"} =>
        card = [met |-> CurrentRow.time, energy |-> CurrentRow.energy,
                ra |-> CurrentRow.ra, dec |-> CurrentRow.dec,
                q |-> Scalar(CurrentRow.q), u |-> Scalar(CurrentRow.u)]

\* C14: without an event list (evtlist missing or empty) xpobsdisplay ends
\* with RuntimeError and has opened no level-1 or level-2 file, loaded no
\* response function and created no figure; whatever was opened or created
\* was so with an event list given.
C14_EventListRequired ==
    /\ (dp_pc # "start" /\ evtlist \in {"none", ""}) =>
          /\ dp_pc = "error"
          /\ dp_error = "RuntimeError"
          /\ opened = {}
          /\ figs = {}
          /\ figs_created = 0
          /\ n_checked = 0
          /\ displayed = <<>>
    /\ (opened # {} \/ figs_created > 0) => evtlist = "evt.fits"
    /\ dp_error = "RuntimeError" => evtlist \in {"none", ""}

C14_Witness ==
    /\ evtlist = ""
    /\ dp_pc = "error"
    /\ dp_error = "RuntimeError"
    /\ opened = {}

====
